---- MODULE Spec2Model ----
(***************************************************************************)
(* Model of config.py, the Vantal Links configuration wizard: a menu loop  *)
(* over an in-memory list of link records, the config.json file it loads   *)
(* and rewrites, and the git add / commit / push sequence of option 7.     *)
(*                                                                         *)
(* Text is a sequence of one-character strings, so that str.strip, int()   *)
(* and str.split are computed and not assumed.  A link in memory is a      *)
(* Python dict: it has an identity (field obj) besides its contents, and   *)
(* two positions of the list may hold the same dict.                       *)
(*                                                                         *)
(* Environment assumptions: writing the file succeeds; the loaded JSON is  *)
(* an object holding a "links" list of objects with "name" and "url";      *)
(* input() never raises (no EOF, no Ctrl-C).                               *)
(***************************************************************************)
EXTENDS Integers, Sequences, FiniteSets, TLC

\* Largest number of links option 2 is offered to grow the list to, and the
\* longest list an initial config.json holds.
MaxLinks == 2

----------------------------------------------------------------------------
\* Text helpers

\* The icon add_new_link stores when the icon input is blank.
DefaultIcon ==
    <<"f", "a", "s", " ", "f", "a", "-", "l", "i", "n", "k">>

\* Stands for a link dict that has no "icon" key.
NoIcon == <<"<no icon key>">>

IsSpace(c) == c = " "

RECURSIVE LStrip(_)
LStrip(s) ==
    IF s # <<>> /\ IsSpace(Head(s)) THEN LStrip(Tail(s)) ELSE s

RECURSIVE RStrip(_)
RStrip(s) ==
    IF s # <<>> /\ IsSpace(s[Len(s)])
      THEN RStrip(SubSeq(s, 1, Len(s) - 1))
      ELSE s

\* str.strip()
Strip(s) == RStrip(LStrip(s))

DigitChars == {"0", "1", "2", "3", "4", "5", "6", "7", "8", "9"}

DigitVal(c) ==
    CASE c = "0" -> 0 [] c = "1" -> 1 [] c = "2" -> 2 [] c = "3" -> 3
      [] c = "4" -> 4 [] c = "5" -> 5 [] c = "6" -> 6 [] c = "7" -> 7
      [] c = "8" -> 8 [] c = "9" -> 9

HasSign(s) == s # <<>> /\ Head(s) \in {"-", "+"}

Unsigned(s) == IF HasSign(s) THEN Tail(s) ELSE s

\* int(s) does not raise ValueError: optional blanks around an optional
\* sign and at least one decimal digit.
IsInt(s) ==
    LET d == Unsigned(Strip(s))
    IN  d # <<>> /\ \A k \in 1..Len(d) : d[k] \in DigitChars

RECURSIVE DigitsVal(_)
DigitsVal(d) ==
    IF d = <<>> THEN 0
    ELSE DigitsVal(SubSeq(d, 1, Len(d) - 1)) * 10 + DigitVal(d[Len(d)])

\* int(s), for an s with IsInt(s)
ParseInt(s) ==
    LET t == Strip(s)
        v == DigitsVal(Unsigned(t))
    IN  IF HasSign(t) /\ Head(t) = "-" THEN 0 - v ELSE v

\* s.split(','): the fields between the commas, empty fields included.
RECURSIVE Split(_)
Split(s) ==
    IF \A k \in 1..Len(s) : s[k] # ","
      THEN <<s>>
      ELSE LET i == CHOOSE k \in 1..Len(s) :
                        s[k] = "," /\ \A j \in 1..(k - 1) : s[j] # ","
           IN  <<SubSeq(s, 1, i - 1)>> \o Split(SubSeq(s, i + 1, Len(s)))

Range(f) == {f[k] : k \in DOMAIN f}

RECURSIVE SeqsUpTo(_, _)
SeqsUpTo(S, n) ==
    IF n = 0 THEN {<<>>}
    ELSE LET R == SeqsUpTo(S, n - 1)
         IN  R \cup {Append(r, x) : r \in R, x \in S}

----------------------------------------------------------------------------
\* Links

\* The contents of a link dict, as json.dump writes them.
Link(n, u, i) == [name |-> n, url |-> u, icon |-> i]

\* A dict in memory: contents and identity.
Obj(o, v) == [obj |-> o, name |-> v.name, url |-> v.url, icon |-> v.icon]

\* What json.dump writes for a list of dicts: the contents, in order.
Values(links) == [k \in 1..Len(links) |-> Link(links[k].name, links[k].url, links[k].icon)]

\* What json.load builds from a list of contents: one fresh dict each.
Objects(vals) == [k \in 1..Len(vals) |-> Obj(k, vals[k])]

\* Identities are named by the first position that holds the dict, which
\* keeps one representation per aliasing pattern.
Normalize(links) ==
    [k \in 1..Len(links) |->
        [links[k] EXCEPT !.obj =
            CHOOSE j \in 1..Len(links) :
                /\ links[j].obj = links[k].obj
                /\ \A h \in 1..(j - 1) : links[h].obj # links[k].obj]]

FreshObj(links) == Len(links) + 1

----------------------------------------------------------------------------
\* The four editing handlers, as functions of the list and of the lines
\* typed.  Each yields the value returned (ret), the list afterwards
\* (links) and the number of input lines it read (used).

Outcome(r, l, u) == [ret |-> r, links |-> l, used |-> u]

\* add_new_link without lines 74-75: a blank icon is stored as it is.
AddResult_NoDefaultIcon(links, rawName, rawUrl, rawIcon) ==
    LET name == Strip(rawName)
        url  == Strip(rawUrl)
    IN  IF name = <<>> THEN Outcome(FALSE, links, 1)
        ELSE IF url = <<>> THEN Outcome(FALSE, links, 2)
        ELSE Outcome(TRUE,
                     Append(links,
                            Obj(FreshObj(links), Link(name, url, Strip(rawIcon)))),
                     3)

AddResult(links, rawName, rawUrl, rawIcon) ==
    LET name == Strip(rawName)
        url  == Strip(rawUrl)
        icon == IF Strip(rawIcon) = <<>> THEN DefaultIcon ELSE Strip(rawIcon)
    IN  IF name = <<>> THEN Outcome(FALSE, links, 1)
        ELSE IF url = <<>> THEN Outcome(FALSE, links, 2)
        ELSE Outcome(TRUE,
                     Append(links, Obj(FreshObj(links), Link(name, url, icon))),
                     3)

\* list.pop(): the last element, whatever c is.
PopAt_Last(links, c) == SubSeq(links, 1, Len(links) - 1)

\* list.pop(c - 1)
PopAt(links, c) ==
    [k \in 1..(Len(links) - 1) |-> IF k < c THEN links[k] ELSE links[k + 1]]

\* remove_link with "0 <= choice" at line 98: 0 is accepted and pop(-1)
\* removes the last link.
RemoveResult_AcceptsZero(links, rawChoice) ==
    IF links = <<>> THEN Outcome(FALSE, links, 0)
    ELSE IF ~IsInt(rawChoice) THEN Outcome(FALSE, links, 1)
    ELSE LET choice == ParseInt(rawChoice)
         IN  IF 0 <= choice /\ choice <= Len(links)
               THEN Outcome(TRUE,
                            Normalize(PopAt(links, IF choice = 0 THEN Len(links)
                                                   ELSE choice)),
                            1)
               ELSE Outcome(FALSE, links, 1)

RemoveResult(links, rawChoice) ==
    IF links = <<>> THEN Outcome(FALSE, links, 0)
    ELSE IF ~IsInt(rawChoice) THEN Outcome(FALSE, links, 1)
    ELSE LET choice == ParseInt(rawChoice)
         IN  IF 1 <= choice /\ choice <= Len(links)
               THEN Outcome(TRUE, Normalize(PopAt(links, choice)), 1)
               ELSE Outcome(FALSE, links, 1)

\* edit_link without the tests of lines 124, 128 and 132: every field is
\* assigned the stripped input.
EditDict_Unconditional(links, c, rawName, rawUrl, rawIcon) ==
    LET o == links[c].obj
    IN  [k \in 1..Len(links) |->
            IF links[k].obj = o
              THEN Obj(o, Link(Strip(rawName), Strip(rawUrl), Strip(rawIcon)))
              ELSE links[k]]

\* The assignments link['name'] = ..., link['url'] = ..., link['icon'] = ...
\* on the dict at position c: every position holding that dict shows them.
EditDict(links, c, rawName, rawUrl, rawIcon) ==
    LET o == links[c].obj
        upd(l) ==
            [l EXCEPT
               !.name = IF Strip(rawName) # <<>> THEN Strip(rawName) ELSE @,
               !.url  = IF Strip(rawUrl) # <<>> THEN Strip(rawUrl) ELSE @,
               !.icon = IF Strip(rawIcon) # <<>> THEN Strip(rawIcon) ELSE @]
    IN  [k \in 1..Len(links) |->
            IF links[k].obj = o THEN upd(links[k]) ELSE links[k]]

\* edit_link without "return True" at line 136.
EditResult_ReturnsNone(links, rawChoice, rawName, rawUrl, rawIcon) ==
    IF links = <<>> THEN Outcome(FALSE, links, 0)
    ELSE IF ~IsInt(rawChoice) THEN Outcome(FALSE, links, 1)
    ELSE LET choice == ParseInt(rawChoice)
         IN  IF 1 <= choice /\ choice <= Len(links)
               THEN Outcome(FALSE,
                            EditDict(links, choice, rawName, rawUrl, rawIcon),
                            4)
               ELSE Outcome(FALSE, links, 1)

EditResult(links, rawChoice, rawName, rawUrl, rawIcon) ==
    IF links = <<>> THEN Outcome(FALSE, links, 0)
    ELSE IF ~IsInt(rawChoice) THEN Outcome(FALSE, links, 1)
    ELSE LET choice == ParseInt(rawChoice)
         IN  IF 1 <= choice /\ choice <= Len(links)
               THEN Outcome(TRUE,
                            EditDict(links, choice, rawName, rawUrl, rawIcon),
                            4)
               ELSE Outcome(FALSE, links, 1)

\* The test of line 161 passes: the set of 0-based indices is range(n).
OrderAccepted(indices, n) == Range(indices) = 0..(n - 1)

ReorderResult(links, rawOrder) ==
    IF links = <<>> THEN Outcome(FALSE, links, 0)
    ELSE LET fields == Split(Strip(rawOrder))
         IN  IF \E k \in 1..Len(fields) : ~IsInt(fields[k])
               THEN Outcome(FALSE, links, 1)
               ELSE LET order_indices ==
                            [k \in 1..Len(fields) |-> ParseInt(fields[k]) - 1]
                    IN  IF ~OrderAccepted(order_indices, Len(links))
                          THEN Outcome(FALSE, links, 1)
                          ELSE Outcome(
                                 TRUE,
                                 Normalize([k \in 1..Len(order_indices) |->
                                              links[order_indices[k] + 1]]),
                                 1)

----------------------------------------------------------------------------
\* The lines a user may type

\* Answers to the name, URL and icon prompts.
RawText == {<<" ">>, <<" ", "a", " ">>}

\* Answers to "Enter the number of the link to ...".
RawNumbers ==
    {<<"x">>, <<"0">>, <<"1">>, <<" ", "2", " ">>, <<"3">>, <<"-", "1">>}

\* Answers to "New order:".
RawOrders ==
    {<<>>, <<"1">>, <<"2", ",", "1">>, <<" ", "2", " ", ",", "1", " ">>,
     <<"1", ",", ",", "2">>, <<"1", ",", "3">>, <<"0", ",", "1">>,
     <<"1", ",", "1", ",", "2">>, <<"3", ",", "1", ",", "2">>}

\* Answers to "Select an option (1-8):".
RawChoices ==
    {<<"1">>, <<"2">>, <<"3">>, <<"4">>, <<"5">>, <<"6">>, <<"7">>, <<"8">>,
     <<" ", "4", " ">>, <<"9">>, <<>>}

MenuOptions ==
    {<<"1">>, <<"2">>, <<"3">>, <<"4">>, <<"5">>, <<"6">>, <<"7">>, <<"8">>}

\* Link contents an existing config.json may hold: a link without an
\* "icon" key.
InitLinkSet == {Link(<<"b">>, <<"a">>, NoIcon)}

\* A link whose name is the empty string, which only a config.json written
\* by other means holds.
NamelessLink == Link(<<>>, <<"a">>, NoIcon)

----------------------------------------------------------------------------
\* State

VARIABLES
    pc,        \* "main": the __main__ block; "load": main_menu before
               \* load_config; "menu": at the menu prompt; "exited": after
               \* option 8; "exit(1)": after sys.exit(1)
    asScript,  \* the program runs as a script (the __main__ block runs)
    config,    \* config["links"]: the dicts in memory
    file,      \* config.json: kind "missing", "invalid" or "valid"; for a
               \* valid file its links, and canon: its bytes are what
               \* json.dump(config, f, indent=2) writes for them
    written,   \* the program has opened config.json for writing
    loaded,    \* what load_config returned: "none" before it ran, "empty
               \* field" when some link has an empty name or URL, else "ok"
    clean,     \* git: config.json is identical to HEAD's copy of it
    last,      \* the latest step: op, the handler's return value, the
               \* lines it read, and the list before it
    run        \* the external steps the latest menu choice took, in order

vars == <<pc, asScript, config, file, written, loaded, clean, last, run>>

Missing == [kind |-> "missing", links |-> <<>>, canon |-> FALSE]
Invalid == [kind |-> "invalid", links |-> <<>>, canon |-> FALSE]
Valid(vals, c) == [kind |-> "valid", links |-> vals, canon |-> c]

InitFiles ==
    {Missing, Invalid}
      \cup {Valid(v, c) : v \in SeqsUpTo(InitLinkSet, MaxLinks), c \in BOOLEAN}
      \cup {Valid(<<NamelessLink>>, FALSE)}

Last(op, ret, args, before) ==
    [op |-> op, ret |-> ret, args |-> args, before |-> before]

Step(name, ok) == [step |-> name, ok |-> ok]

Init ==
    /\ asScript \in BOOLEAN
    /\ pc = IF asScript THEN "main" ELSE "load"
    /\ config = <<>>
    /\ file \in InitFiles
    /\ written = FALSE
    /\ loaded = "none"
    /\ clean \in BOOLEAN
    /\ last = Last("none", FALSE, <<>>, <<>>)
    /\ run = <<>>

----------------------------------------------------------------------------
\* Files

\* The values `clean` may take once the file f is rewritten with vals:
\* the same bytes leave it as it was, other bytes make a clean file dirty,
\* and a dirty file may come to match HEAD again.
CleanAfterWrite(f, vals, c) ==
    IF f = Valid(vals, TRUE) THEN {c}
    ELSE IF c THEN {FALSE} ELSE BOOLEAN

\* save_config(config)
SaveConfig(links) ==
    /\ file' = Valid(Values(links), TRUE)
    /\ written' = TRUE
    /\ clean' \in CleanAfterWrite(file, Values(links), clean)

\* load_config returning the empty configuration for invalid JSON too.
LoadConfig_InvalidAsEmpty(f) ==
    IF f.kind = "valid"
      THEN [exit |-> FALSE, links |-> Objects(f.links)]
      ELSE [exit |-> FALSE, links |-> <<>>]

\* load_config(): the list it returns, or "exit" for sys.exit(1)
LoadConfig(f) ==
    CASE f.kind = "valid"   -> [exit |-> FALSE, links |-> Objects(f.links)]
      [] f.kind = "missing" -> [exit |-> FALSE, links |-> <<>>]
      [] f.kind = "invalid" -> [exit |-> TRUE, links |-> <<>>]

\* The __main__ block: create config.json when it does not exist, then
\* call main_menu.
ScriptStart ==
    /\ pc = "main"
    /\ pc' = "load"
    /\ IF file.kind = "missing"
         THEN /\ file' = Valid(<<>>, TRUE)
              /\ written' = TRUE
              /\ clean' \in CleanAfterWrite(file, <<>>, clean)
         ELSE UNCHANGED <<file, written, clean>>
    /\ last' = Last("main", FALSE, <<>>, <<>>)
    /\ UNCHANGED <<asScript, config, loaded, run>>

NonEmptyFields(links) ==
    \A k \in 1..Len(links) : links[k].name # <<>> /\ links[k].url # <<>>

\* main_menu, line 212
MenuLoad ==
    /\ pc = "load"
    /\ LET r == LoadConfig(file)
       IN  /\ pc' = IF r.exit THEN "exit(1)" ELSE "menu"
           /\ config' = r.links
           /\ loaded' = IF NonEmptyFields(r.links) THEN "ok" ELSE "empty field"
    /\ last' = Last("load", FALSE, <<>>, <<>>)
    /\ UNCHANGED <<asScript, file, written, clean, run>>

----------------------------------------------------------------------------
\* One pass of the menu loop per action

Chosen(option) == \E raw \in RawChoices : Strip(raw) = option

\* if handler(config): save_config(config)
Handle(op, r, args) ==
    /\ config' = r.links
    /\ last' = Last(op, r.ret, SubSeq(args, 1, r.used), config)
    /\ IF r.ret
         THEN /\ SaveConfig(r.links)
              /\ run' = <<Step("write", TRUE)>>
         ELSE /\ UNCHANGED <<file, written, clean>>
              /\ run' = <<>>
    /\ UNCHANGED <<pc, asScript, loaded>>

View ==
    /\ pc = "menu"
    /\ Chosen(<<"1">>)
    /\ last' = Last("view", FALSE, <<>>, config)
    /\ run' = <<>>
    /\ UNCHANGED <<pc, asScript, config, file, written, loaded, clean>>

Add ==
    /\ pc = "menu"
    /\ Chosen(<<"2">>)
    /\ Len(config) < MaxLinks
    /\ \E n \in RawText, u \in RawText, i \in RawText :
         Handle("add", AddResult(config, n, u, i), <<n, u, i>>)

Edit ==
    /\ pc = "menu"
    /\ Chosen(<<"3">>)
    /\ \E c \in RawNumbers, n \in RawText, u \in RawText, i \in RawText :
         Handle("edit", EditResult(config, c, n, u, i), <<c, n, u, i>>)

Remove ==
    /\ pc = "menu"
    /\ Chosen(<<"4">>)
    /\ \E c \in RawNumbers :
         Handle("remove", RemoveResult(config, c), <<c>>)

Reorder ==
    /\ pc = "menu"
    /\ Chosen(<<"5">>)
    /\ \E o \in RawOrders :
         Handle("reorder", ReorderResult(config, o), <<o>>)

Save ==
    /\ pc = "menu"
    /\ Chosen(<<"6">>)
    /\ SaveConfig(config)
    /\ last' = Last("save", FALSE, <<>>, config)
    /\ run' = <<Step("write", TRUE)>>
    /\ UNCHANGED <<pc, asScript, config, loaded>>

\* git_operations with git commit run without check=True: push follows a
\* failed commit.
GitOperations_CommitUnchecked(statusOk, addOk, commitOk, pushOk, dirty) ==
    IF ~statusOk THEN <<Step("status", FALSE)>>
    ELSE IF ~addOk THEN <<Step("status", TRUE), Step("add", FALSE)>>
    ELSE <<Step("status", TRUE), Step("add", TRUE),
           Step("commit", commitOk /\ dirty), Step("push", pushOk)>>

\* git_operations(): the git commands run, in order, each with whether it
\* exited with status 0.  statusOk, addOk, commitOk and pushOk are what the
\* environment answers if the command is run; git commit also fails when
\* nothing is staged that differs from HEAD (dirty is FALSE).
GitOperations(statusOk, addOk, commitOk, pushOk, dirty) ==
    IF ~statusOk THEN <<Step("status", FALSE)>>
    ELSE IF ~addOk THEN <<Step("status", TRUE), Step("add", FALSE)>>
    ELSE IF ~(commitOk /\ dirty)
      THEN <<Step("status", TRUE), Step("add", TRUE), Step("commit", FALSE)>>
    ELSE <<Step("status", TRUE), Step("add", TRUE), Step("commit", TRUE),
           Step("push", pushOk)>>

\* The value git_operations returns: True at line 205, False otherwise.
GitReturn(steps) == Len(steps) = 4 /\ \A k \in 1..4 : steps[k].ok

Ran(steps, name) == \E k \in 1..Len(steps) : steps[k].step = name

Succeeded(steps, name) ==
    \E k \in 1..Len(steps) : steps[k].step = name /\ steps[k].ok

SaveAndCommit ==
    /\ pc = "menu"
    /\ Chosen(<<"7">>)
    /\ file' = Valid(Values(config), TRUE)
    /\ written' = TRUE
    /\ \E c \in CleanAfterWrite(file, Values(config), clean),
          statusOk \in BOOLEAN, addOk \in BOOLEAN,
          commitOk \in BOOLEAN, pushOk \in BOOLEAN :
         LET steps == GitOperations(statusOk, addOk, commitOk, pushOk, ~c)
         IN  /\ run' = <<Step("write", TRUE)>> \o steps
             /\ last' = Last("commit", GitReturn(steps), <<>>, config)
             /\ clean' = IF Succeeded(steps, "commit") THEN TRUE ELSE c
    /\ UNCHANGED <<pc, asScript, config, loaded>>

Exit ==
    /\ pc = "menu"
    /\ Chosen(<<"8">>)
    /\ pc' = "exited"
    /\ last' = Last("exit", FALSE, <<>>, config)
    /\ run' = <<>>
    /\ UNCHANGED <<asScript, config, file, written, loaded, clean>>

InvalidChoice ==
    /\ pc = "menu"
    /\ \E raw \in RawChoices : Strip(raw) \notin MenuOptions
    /\ last' = Last("invalid", FALSE, <<>>, config)
    /\ run' = <<>>
    /\ UNCHANGED <<pc, asScript, config, file, written, loaded, clean>>

Next ==
    \/ ScriptStart
    \/ MenuLoad
    \/ View
    \/ Add
    \/ Edit
    \/ Remove
    \/ Reorder
    \/ Save
    \/ SaveAndCommit
    \/ Exit
    \/ InvalidChoice

Spec == Init /\ [][Next]_vars

----------------------------------------------------------------------------
\* Properties

\* The selection typed at the first prompt of edit_link / remove_link names
\* a position of the list the handler was given.
ValidSelection ==
    /\ last.before # <<>>
    /\ Len(last.args) >= 1
    /\ IsInt(last.args[1])
    /\ ParseInt(last.args[1]) \in 1..Len(last.before)

Selection == ParseInt(last.args[1])

\* The 1-based positions typed at "New order:", when all are numbers.
OrderFields == Split(Strip(last.args[1]))

OrderNumbers == [k \in 1..Len(OrderFields) |-> ParseInt(OrderFields[k])]

Blank(raw) == Strip(raw) = <<>>

Wrote == run = <<Step("write", TRUE)>>

OnDisk(links) == file = Valid(Values(links), TRUE)

\* C1: when reorder_links returns True the new list is a permutation of the
\* previous one: the same length, every previous position used exactly
\* once, and position k holding the link that was at the k-th number typed.
C1_ReorderIsPermutation ==
    (last.op = "reorder" /\ last.ret) =>
        /\ Len(config) = Len(last.before)
        /\ Len(OrderNumbers) = Len(config)
        /\ \A j \in 1..Len(last.before) :
              Cardinality({k \in 1..Len(OrderNumbers) : OrderNumbers[k] = j}) = 1
        /\ \A k \in 1..Len(config) :
              /\ OrderNumbers[k] \in 1..Len(last.before)
              /\ Values(config)[k] = Values(last.before)[OrderNumbers[k]]

\* The input of the latest handler is one the handler is to reject: an empty
\* name or URL on add, a non-numeric or out-of-range selection on edit and
\* remove, a non-numeric order or one whose numbers are not the positions
\* 1..n on reorder, an empty list on edit, remove and reorder.
RejectedInput ==
    \/ /\ last.op = "add"
       /\ \/ Blank(last.args[1])
          \/ Len(last.args) >= 2 /\ Blank(last.args[2])
    \/ /\ last.op \in {"edit", "remove"}
       /\ ~ValidSelection
    \/ /\ last.op = "reorder"
       /\ \/ last.before = <<>>
          \/ \E k \in 1..Len(OrderFields) : ~IsInt(OrderFields[k])
          \/ Range(OrderNumbers) # 1..Len(last.before)

\* C2: a rejected add, edit, remove or reorder returns False, leaves the
\* list in memory exactly as it was, and main_menu does not write the file.
C2_RejectionChangesNothing ==
    RejectedInput =>
        /\ ~last.ret
        /\ config = last.before
        /\ run = <<>>

C2_Witness ==
    /\ last.op = "remove"
    /\ last.before # <<>>
    /\ last.args = <<<<"0">>>>
    /\ RejectedInput

GitOrder == <<"write", "status", "add", "commit", "push">>

\* C3: option 7 runs write, git status, git add, git commit, git push in
\* that order; a step runs only after all earlier ones succeeded; the
\* sequence stops at the first failing step and then git_operations returns
\* False; it returns True (the success messages) only when add, commit and
\* push all succeeded.
C3_GitStepsInOrder ==
    last.op = "commit" =>
        /\ Len(run) \in 2..Len(GitOrder)
        /\ \A k \in 1..Len(run) : run[k].step = GitOrder[k]
        /\ \A k \in 1..(Len(run) - 1) : run[k].ok
        /\ Len(run) < Len(GitOrder) => ~run[Len(run)].ok
        /\ ~run[Len(run)].ok => ~last.ret
        /\ last.ret =>
              /\ Succeeded(run, "add")
              /\ Succeeded(run, "commit")
              /\ Succeeded(run, "push")

C3_Witness ==
    /\ last.op = "commit"
    /\ ~last.ret
    /\ Ran(run, "commit")
    /\ ~Succeeded(run, "commit")
    /\ ~Ran(run, "push")

\* C4: load_config on a valid file yields its content; on a missing file it
\* yields the empty configuration and the menu is shown; on invalid JSON
\* the program exits with status 1 before any menu, and the file is never
\* written.
C4_LoadConfigCases ==
    /\ (last.op = "load" /\ file.kind = "valid") =>
          pc = "menu" /\ Values(config) = file.links
    /\ (last.op = "load" /\ file.kind = "missing") =>
          pc = "menu" /\ config = <<>>
    /\ file.kind = "invalid" =>
          pc \in {"main", "load", "exit(1)"} /\ ~written
    /\ (last.op = "load" /\ file.kind = "invalid") => pc = "exit(1)"
    /\ pc = "exit(1)" => last.op = "load" /\ file = Invalid

C4_Witness == pc = "exit(1)" /\ file = Invalid /\ asScript

\* C5: remove_link with a selection c in 1..n returns True, removes exactly
\* the link at position c (the others keep order and contents), and the
\* file is then written.
C5_RemoveExactlyOne ==
    (last.op = "remove" /\ ValidSelection) =>
        /\ last.ret
        /\ Len(config) = Len(last.before) - 1
        /\ \A k \in 1..Len(config) :
              Values(config)[k] =
                Values(last.before)[IF k < Selection THEN k ELSE k + 1]
        /\ Wrote
        /\ OnDisk(config)

C5_Witness ==
    /\ last.op = "remove"
    /\ ValidSelection
    /\ Selection = 1
    /\ Len(last.before) = 2
    /\ Values(last.before)[1] # Values(last.before)[2]

\* The value edit_link leaves in a field: the stripped input, or the old
\* value when the input is blank.
Edited(old, raw) == IF Blank(raw) THEN old ELSE Strip(raw)

\* C6: edit_link with a valid selection c changes only the link at
\* position c, each field to the stripped input or, on a blank input, to
\* its previous value; length, order and all other links are unchanged.
C6_EditOnlySelected ==
    (last.op = "edit" /\ ValidSelection) =>
        /\ last.ret
        /\ Len(config) = Len(last.before)
        /\ \A k \in 1..Len(config) :
              k # Selection => Values(config)[k] = Values(last.before)[k]
        /\ config[Selection].name =
              Edited(last.before[Selection].name, last.args[2])
        /\ config[Selection].url =
              Edited(last.before[Selection].url, last.args[3])
        /\ config[Selection].icon =
              Edited(last.before[Selection].icon, last.args[4])

\* C7: add_new_link with a non-empty name and URL appends one record with
\* the stripped name and URL and the entered icon, or "fas fa-link" when
\* the icon is blank; the earlier links keep positions and contents.
C7_AddAppendsOne ==
    (last.op = "add" /\ ~RejectedInput) =>
        /\ last.ret
        /\ Len(last.args) = 3
        /\ Len(config) = Len(last.before) + 1
        /\ \A k \in 1..Len(last.before) : config[k] = last.before[k]
        /\ Values(config)[Len(config)] =
              Link(Strip(last.args[1]), Strip(last.args[2]),
                   IF Blank(last.args[3]) THEN DefaultIcon
                   ELSE Strip(last.args[3]))

C7_Witness ==
    /\ last.op = "add"
    /\ last.ret
    /\ Len(last.before) = 1
    /\ Blank(last.args[3])

\* C8: run as a script, whenever the menu prompt is shown the links in
\* config.json are the links in memory.
C8_DiskMatchesMemory ==
    (asScript /\ pc = "menu") =>
        /\ file.kind = "valid"
        /\ file.links = Values(config)

C8_Witness ==
    /\ asScript
    /\ pc = "menu"
    /\ last.op = "edit"
    /\ last.ret
    /\ Values(config) # Values(last.before)

\* C9: if every link of the loaded configuration has a non-empty name and
\* URL, then after any sequence of add, edit, remove and reorder every link
\* in memory has a non-empty name and URL.
C9_NamesAndUrlsStayNonEmpty ==
    loaded = "ok" => NonEmptyFields(config)

C9_Witness ==
    /\ loaded = "ok"
    /\ last.op = "edit"
    /\ last.ret
    /\ Blank(last.args[2])
    /\ Blank(last.args[3])
    /\ config # <<>>

\* C10: when option 7 created the commit and its push failed, choosing
\* option 7 again with the list unchanged (git status and git add
\* succeeding) runs git push.
C10_RetryReachesPush ==
    [][(/\ last.op = "commit"
        /\ Succeeded(run, "commit")
        /\ ~Succeeded(run, "push")
        /\ last'.op = "commit"
        /\ config' = config
        /\ Succeeded(run', "status")
        /\ Succeeded(run', "add"))
       => Ran(run', "push")]_vars

====
